---------------------------- MODULE Spec2Model ----------------------------
(***************************************************************************)
(* Model of the trajectory conflict-detection engine of                    *)
(* drone_deconfliction.py: the geometry kernel                             *)
(* (closest_distance_between_segments, interpolate_position) and the       *)
(* conflict detector (check_spatial_conflict, check_temporal_conflict,     *)
(* check_mission_safety).                                                  *)
(*                                                                         *)
(* Numbers.  Waypoint coordinates and times, the time window and the       *)
(* safety buffer are integers.  Every derived quantity of the code is a    *)
(* quotient of integers and is kept as an exact rational <<n, d>> in       *)
(* lowest terms with d > 0.  A division by zero is kept as numpy keeps it: *)
(* 0/0 is nan (<<0, 0>>), n/0 is +inf or -inf (<<1, 0>>, <<-1, 0>>); numpy *)
(* warns and does not raise.  A distance (np.linalg.norm) is kept as its   *)
(* SQUARE, so "dist < safety_buffer" is "dist^2 < safety_buffer^2" for the *)
(* non-negative buffers of the model, and a record's "distance" field      *)
(* holds the squared distance.                                             *)
(*                                                                         *)
(* The code computes in IEEE doubles, and rounding decides a comparison    *)
(* where the exact operands are equal: for an exact distance equal to the  *)
(* buffer the code may compute 0.9999999999999999 and report a record.     *)
(* The model therefore carries each compared quantity twice: as the exact  *)
(* rational and as the double the code computes, operation by operation,   *)
(* rounded to nearest-even (the F operators).  A comparison (dist <        *)
(* safety_buffer, time <= t, the rounding of round(x, 2)) is decided by    *)
(* the exact operands when they differ, because the rounding errors of the *)
(* small integers of the model are far below any such difference, and by   *)
(* the doubles when the exact operands are equal.  The distance, time and  *)
(* location fields of the records hold the exact values.                   *)
(***************************************************************************)
EXTENDS Integers, Sequences, FiniteSets, TLC

(***************************************************************************)
(* Exact rational arithmetic                                               *)
(***************************************************************************)
Abs(n) == IF n < 0 THEN -n ELSE n

Sign(n) == IF n < 0 THEN -1 ELSE IF n > 0 THEN 1 ELSE 0

RECURSIVE GCD(_, _)
GCD(m, n) == IF n = 0 THEN m ELSE GCD(n, m % n)

\* The rational n/d (d >= 0) in lowest terms; n/0 is nan, +inf or -inf.
Rat(n, d) ==
    IF d = 0 THEN <<Sign(n), 0>>
    ELSE IF d = 1 THEN <<n, 1>>
    ELSE LET g == GCD(Abs(n), d) IN <<n \div g, d \div g>>

\* A value in lowest terms, as it is stored in a record or returned.
Norm(r) == Rat(r[1], r[2])

NormVec(v) == <<Norm(v[1]), Norm(v[2]), Norm(v[3])>>

I(n) == <<n, 1>>

Zero == I(0)

One == I(1)

IsNaN(r) == r[1] = 0 /\ r[2] = 0

\* The four operations keep the denominator positive and do not reduce;
\* their operands are finite.
RAdd(r, s) ==
    IF r[2] = s[2] THEN <<r[1] + s[1], r[2]>>
    ELSE <<r[1] * s[2] + s[1] * r[2], r[2] * s[2]>>

RSub(r, s) ==
    IF r[2] = s[2] THEN <<r[1] - s[1], r[2]>>
    ELSE <<r[1] * s[2] - s[1] * r[2], r[2] * s[2]>>

RMul(r, s) == <<r[1] * s[1], r[2] * s[2]>>

\* Float true division: a zero divisor gives nan or an infinity.
RDiv(r, s) ==
    IF s[1] > 0 THEN <<r[1] * s[2], r[2] * s[1]>>
    ELSE IF s[1] < 0 THEN <<(-r[1]) * s[2], r[2] * (-s[1])>>
    ELSE <<Sign(r[1]), 0>>

\* r < s and r <= s as IEEE compares: false when either side is nan.
RLt(r, s) == ~IsNaN(r) /\ ~IsNaN(s) /\ r[1] * s[2] < s[1] * r[2]

RLe(r, s) == ~IsNaN(r) /\ ~IsNaN(s) /\ r[1] * s[2] <= s[1] * r[2]

\* Equality of two finite rationals.
REq(r, s) == r[1] * s[2] = s[1] * r[2]

\* Python's min(x, y) and max(x, y): the first argument unless the second
\* compares strictly below (above) it, so min(1.0, nan) is 1.0.
PyMin(x, y) == IF RLt(y, x) THEN y ELSE x

PyMax(x, y) == IF RLt(x, y) THEN y ELSE x

\* max(0.0, min(1.0, x))
Clamp01(x) == PyMax(Zero, PyMin(One, x))

(***************************************************************************)
(* IEEE 754 double arithmetic                                              *)
(*                                                                         *)
(* A natural number of any size is a sequence of limbs in 0..Limb-1, least *)
(* significant first, without leading zero limbs; <<>> is 0.  A double is  *)
(* [sgn, man, exp] with value sgn * man * 2^exp, man odd and below 2^53.   *)
(* Every operation returns the exact result rounded to nearest, ties to    *)
(* even.  Subnormals, overflow, nan and inf do not arise from the values   *)
(* the model computes with and are left out.                               *)
(***************************************************************************)
LimbBits == 13

Limb == 2 ^ LimbBits

MantissaBits == 53

Pow2(k) == 2 ^ k

BGet(a, i) == IF i \in DOMAIN a THEN a[i] ELSE 0

BTrim(a) ==
    LET nz == {i \in DOMAIN a : a[i] # 0}
    IN  IF nz = {} THEN <<>>
        ELSE SubSeq(a, 1, CHOOSE i \in nz : \A j \in nz : j <= i)

\* The limbs, from limb i up, of the number whose limbs not yet carried
\* are d, with c carried into limb i; four limbs are carried at a time, s
\* being limb i with its carry.
RECURSIVE BCarryFrom(_, _, _)

BCarryQuad(d, i, s) ==
    <<s % Limb,
      (BGet(d, i + 1) + s \div Limb) % Limb,
      (BGet(d, i + 2) + (BGet(d, i + 1) + s \div Limb) \div Limb) % Limb,
      (BGet(d, i + 3) + (BGet(d, i + 2) + (BGet(d, i + 1) + s \div Limb) \div Limb) \div Limb) % Limb>>
    \o BCarryFrom(d, i + 4,
           (BGet(d, i + 3) + (BGet(d, i + 2) + (BGet(d, i + 1) + s \div Limb) \div Limb) \div Limb) \div Limb)

BCarryFrom(d, i, c) ==
    IF c = 0 /\ i > Len(d) THEN <<>> ELSE BCarryQuad(d, i, BGet(d, i) + c)

BCarry(d) == BTrim(BCarryFrom(d, 1, 0))

BInt(n) == BCarry(<<n>>)

BLonger(a, b) == IF Len(a) > Len(b) THEN Len(a) ELSE Len(b)

BAdd(a, b) ==
    IF a = <<>> THEN b
    ELSE IF b = <<>> THEN a
    ELSE BCarry([i \in 1..BLonger(a, b) |-> BGet(a, i) + BGet(b, i)])

\* a - b for a >= b
BSub(a, b) ==
    IF a = <<>> \/ b = <<>> THEN a
    ELSE BCarry([i \in 1..BLonger(a, b) |-> BGet(a, i) - BGet(b, i)])

RECURSIVE BConv(_, _, _, _)
BConv(a, b, k, i) ==
    IF i > Len(a) THEN 0
    ELSE a[i] * BGet(b, k - i + 1) + BConv(a, b, k, i + 1)

BMul(a, b) ==
    IF a = <<>> \/ b = <<>> THEN <<>>
    ELSE BCarry([k \in 1..(Len(a) + Len(b) - 1) |-> BConv(a, b, k, 1)])

\* a * n for 0 <= n < 2^17
BMulSmall(a, n) ==
    IF a = <<>> \/ n = 0 THEN <<>> ELSE BCarry([i \in DOMAIN a |-> a[i] * n])

\* -1, 0, 1 as a < b, a = b, a > b
BCmp(a, b) ==
    IF Len(a) # Len(b) THEN (IF Len(a) < Len(b) THEN -1 ELSE 1)
    ELSE LET df == {i \in DOMAIN a : a[i] # b[i]}
         IN  IF df = {} THEN 0
             ELSE LET m == CHOOSE i \in df : \A j \in df : j <= i
                  IN  IF a[m] < b[m] THEN -1 ELSE 1

BShiftLimbs(a, q) == IF a = <<>> THEN <<>> ELSE [i \in 1..q |-> 0] \o a

\* a * 2^s
BShl(a, s) == BShiftLimbs(BMulSmall(a, Pow2(s % LimbBits)), s \div LimbBits)

\* a \div 2^s
BShr(a, s) ==
    LET q == s \div LimbBits
        r == s % LimbBits
        n == Len(a) - q
    IN  IF n <= 0 THEN <<>>
        ELSE BTrim([i \in 1..n |->
                (a[i + q] \div Pow2(r))
                + (BGet(a, i + q + 1) % Pow2(r)) * Pow2(LimbBits - r)])

BitLenSmall(x) == CHOOSE k \in 0..LimbBits : x < Pow2(k) /\ (k = 0 \/ Pow2(k - 1) <= x)

BBitLen(a) ==
    IF a = <<>> THEN 0 ELSE LimbBits * (Len(a) - 1) + BitLenSmall(a[Len(a)])

\* The number of trailing zero bits of a # 0.
BTrailingZeros(a) ==
    LET i == CHOOSE i \in DOMAIN a : a[i] # 0 /\ \A j \in 1..(i - 1) : a[j] = 0
        z == CHOOSE k \in 0..LimbBits : a[i] % Pow2(k) = 0 /\ a[i] % Pow2(k + 1) # 0
    IN  LimbBits * (i - 1) + z

BIsOdd(a) == a # <<>> /\ a[1] % 2 = 1

\* The quotient limb of rem by bs guessed from the two leading limbs of rem
\* and the leading limb of bs, for rem < bs * Limb: when the leading limb of
\* bs is at least Limb / 2 the guess is the limb or up to 2 above it.
BDivGuess(rem, bs) ==
    IF (BGet(rem, Len(bs) + 1) * Limb + BGet(rem, Len(bs))) \div bs[Len(bs)] < Limb
    THEN (BGet(rem, Len(bs) + 1) * Limb + BGet(rem, Len(bs))) \div bs[Len(bs)]
    ELSE Limb - 1

\* The largest of g, g - 1, g - 2 whose product with bs is at most rem.
BDivDigit(rem, bs, g) ==
    IF BCmp(BMulSmall(bs, g), rem) <= 0 THEN g
    ELSE IF BCmp(BMulSmall(bs, g - 1), rem) <= 0 THEN g - 1
    ELSE g - 2

\* Long division of rem by b, from quotient limb i down; q holds the limbs
\* found so far and the leading limb of b is at least Limb / 2.
RECURSIVE BDivLoop(_, _, _, _)

\* One step of the long division: d is quotient limb i.
BDivStep(rem, b, i, q, d) ==
    IF d = 0 THEN BDivLoop(rem, b, i - 1, <<0>> \o q)
    ELSE BDivLoop(BSub(rem, BMulSmall(BShiftLimbs(b, i - 1), d)), b, i - 1, <<d>> \o q)

BDivLoop(rem, b, i, q) ==
    IF i < 1 \/ rem = <<>> THEN [q |-> BTrim([k \in 1..i |-> 0] \o q), r |-> rem]
    ELSE BDivStep(rem, b, i, q,
             BDivDigit(rem, BShiftLimbs(b, i - 1), BDivGuess(rem, BShiftLimbs(b, i - 1))))

\* The division of as by bs, both moved up s bits to bring the leading limb
\* of the divisor to Limb / 2 or more; the remainder is moved back.
BDivBack(dm, s) == [q |-> dm.q, r |-> BShr(dm.r, s)]

BDivNorm(as, bs, s) == BDivBack(BDivLoop(as, bs, Len(as) - Len(bs) + 1, <<>>), s)

BDivBy(a, b, s) == BDivNorm(BShl(a, s), BShl(b, s), s)

\* [q, r] with a = q * b + r and r < b, for b # 0
BDivMod(a, b) ==
    IF BCmp(a, b) < 0 THEN [q |-> <<>>, r |-> a]
    ELSE BDivBy(a, b, LimbBits - BitLenSmall(b[Len(b)]))

\* Newton's iteration for the integer square root of n, from an x that is
\* not below it; q is n \div x, and the next iterate (x + q) \div 2 is below
\* x exactly when q is.
RECURSIVE BSqrtFrom(_, _)

BSqrtStep(n, x, q) == IF BCmp(q, x) >= 0 THEN x ELSE BSqrtFrom(n, BShr(BAdd(x, q), 1))

BSqrtFrom(n, x) == BSqrtStep(n, x, BDivMod(n, x).q)

\* The integer square root of n
BSqrt(n) ==
    IF n = <<>> THEN <<>> ELSE BSqrtFrom(n, BShl(<<1>>, (BBitLen(n) + 1) \div 2))

FZero == [sgn |-> 0, man |-> <<>>, exp |-> 0]

\* sgn * n * 2^e with the z trailing zero bits of n moved to the exponent
FStrip(sgn, n, e, z) == [sgn |-> sgn, man |-> BShr(n, z), exp |-> e + z]

\* sgn * n * 2^e for n below 2^53
FCanon(sgn, n, e) ==
    IF n = <<>> \/ sgn = 0 THEN FZero ELSE FStrip(sgn, n, e, BTrailingZeros(n))

\* q or q + 1: q is a mantissa cut off, half tells that the first bit cut
\* off is 1 and inexact that a later one is; ties go to the even mantissa.
FNearest(q, half, inexact) ==
    IF half /\ (inexact \/ BIsOdd(q)) THEN BAdd(q, <<1>>) ELSE q

\* FRound for an n with s bits more than a mantissa holds.
FRoundBy(sgn, n, e, sticky, s) ==
    FCanon(sgn,
           IF s <= 0 THEN n
           ELSE FNearest(BShr(n, s), BIsOdd(BShr(n, s - 1)),
                         sticky \/ BTrailingZeros(n) < s - 1),
           IF s <= 0 THEN e ELSE e + s)

\* The double nearest to sgn * (n + f) * 2^e, where 0 <= f < 1 and f # 0
\* exactly when sticky; ties go to the even mantissa.  With sticky, n has
\* more than 54 bits.
FRound(sgn, n, e, sticky) == FRoundBy(sgn, n, e, sticky, BBitLen(n) - MantissaBits)

\* float(n)
FInt(n) == FCanon(Sign(n), BInt(Abs(n)), 0)

FNeg(a) == [sgn |-> -a.sgn, man |-> a.man, exp |-> a.exp]

FMul(a, b) ==
    IF a.sgn = 0 \/ b.sgn = 0 THEN FZero
    ELSE FRound(a.sgn * b.sgn, BMul(a.man, b.man), a.exp + b.exp, FALSE)

FMinExp(a, b) == IF a.exp < b.exp THEN a.exp ELSE b.exp

\* -1, 0, 1 as |a| < |b|, |a| = |b|, |a| > |b|, for a # 0 and b # 0
FMagCmp(a, b) ==
    BCmp(BShl(a.man, a.exp - FMinExp(a, b)), BShl(b.man, b.exp - FMinExp(a, b)))

\* sa * x * 2^e + sb * y * 2^e, rounded; c compares x with y.
FSum(sa, x, sb, y, e, c) ==
    FRound(IF sa = sb \/ c >= 0 THEN sa ELSE sb,
           IF sa = sb THEN BAdd(x, y) ELSE IF c >= 0 THEN BSub(x, y) ELSE BSub(y, x),
           e, FALSE)

FAdd(a, b) ==
    IF a.sgn = 0 THEN b
    ELSE IF b.sgn = 0 THEN a
    ELSE FSum(a.sgn, BShl(a.man, a.exp - FMinExp(a, b)),
              b.sgn, BShl(b.man, b.exp - FMinExp(a, b)),
              FMinExp(a, b), FMagCmp(a, b))

FSub(a, b) == FAdd(a, FNeg(b))

NonNeg(n) == IF n > 0 THEN n ELSE 0

\* a / b from [q, r], the quotient and remainder of a.man * 2^k by b.man
FDivRound(a, b, k, dm) == FRound(a.sgn * b.sgn, dm.q, a.exp - b.exp - k, dm.r # <<>>)

FDivScaled(a, b, k) == FDivRound(a, b, k, BDivMod(BShl(a.man, k), b.man))

\* short is [q, r] for the mantissas as they are.
FDivShort(a, b, short) ==
    IF short.r = <<>> THEN FCanon(a.sgn * b.sgn, short.q, a.exp - b.exp)
    ELSE FDivScaled(a, b, NonNeg(MantissaBits + 3 + BBitLen(b.man) - BBitLen(a.man)))

\* a / b for b # 0.  A quotient of the mantissas without remainder is
\* exact and is not rounded.
FDiv(a, b) ==
    IF a.sgn = 0 THEN FZero ELSE FDivShort(a, b, BDivMod(a.man, b.man))

\* sqrt(n * 2^e) for an even e and an n of more than 106 bits, from the
\* integer root s of n
FRoot(n, e, s) == FRound(1, s, e \div 2, BMul(s, s) # n)

\* k0 or k0 + 1, whichever leaves e - k even
FEvenShift(e, k0) == k0 + ((e - k0) % 2)

\* The root of a.man * 2^k, found from x, which is not below it.
FSqrtScaled(a, k, x) == FRoot(BShl(a.man, k), a.exp - k, BSqrtFrom(BShl(a.man, k), x))

\* r is the integer root of a.man * 2^odd, so (r + 1) * 2^((k - odd) / 2) is
\* above the root of a.man * 2^k.
FSqrtFrom(a, odd, r, k) == FSqrtScaled(a, k, BShl(BAdd(r, <<1>>), (k - odd) \div 2))

\* m is a.man * 2^odd with a.exp - odd even, r its integer root.
FSqrtShort(a, odd, m, r) ==
    IF BMul(r, r) = m THEN FCanon(1, r, (a.exp - odd) \div 2)
    ELSE FSqrtFrom(a, odd, r,
                   FEvenShift(a.exp, NonNeg(2 * MantissaBits + 4 - BBitLen(a.man))))

\* sqrt(a) for a >= 0.  A root that is exact in a few bits is not rounded.
FSqrt(a) ==
    IF a.sgn = 0 THEN FZero
    ELSE FSqrtShort(a, a.exp % 2, BShl(a.man, a.exp % 2), BSqrt(BShl(a.man, a.exp % 2)))

\* -1, 0, 1 as a < b, a = b, a > b
FCmp(a, b) ==
    IF a.sgn # b.sgn THEN Sign(a.sgn - b.sgn)
    ELSE IF a.sgn = 0 THEN 0
    ELSE a.sgn * FMagCmp(a, b)

FLt(a, b) == FCmp(a, b) < 0

FLe(a, b) == FCmp(a, b) <= 0

(***************************************************************************)
(* Geometry kernel                                                         *)
(***************************************************************************)
VSub(p, q) == <<p[1] - q[1], p[2] - q[2], p[3] - q[3]>>

Dot(u, v) == u[1] * v[1] + u[2] * v[2] + u[3] * v[3]

\* The square of np.linalg.norm of a vector of rationals.
NormSq(r) == RAdd(RAdd(RMul(r[1], r[1]), RMul(r[2], r[2])), RMul(r[3], r[3]))

\* "D < 1e-10": D is an integer here, so D < 1e-10 exactly when D < 1.
IsParallel(D) == D < 1

\* The divisor the parallel branch uses: "d / b if b > c else e / c".
ParallelDivisor(b, c) == IF b > c THEN b ELSE c

ParallelTc(b, c, d, e) == IF b > c THEN RDiv(I(d), I(b)) ELSE RDiv(I(e), I(c))

\* One call of closest_distance_between_segments on integer points:
\* the squared distance returned and the divisors of the divisions executed.
ClosestCall(p1, p2, q1, q2) ==
    LET u == VSub(p2, p1)
        v == VSub(q2, q1)
        w == VSub(p1, q1)
        a == Dot(u, u)
        b == Dot(u, v)
        c == Dot(v, v)
        d == Dot(u, w)
        e == Dot(v, w)
        D == a * c - b * b
        sc0 == IF IsParallel(D) THEN Zero ELSE RDiv(I(b * e - c * d), I(D))
        tc0 == IF IsParallel(D) THEN ParallelTc(b, c, d, e)
               ELSE RDiv(I(a * e - b * d), I(D))
        sc == Clamp01(sc0)
        tc == Clamp01(tc0)
        dP == [k \in 1..3 |->
                 RSub(RAdd(I(w[k]), RMul(sc, I(u[k]))), RMul(tc, I(v[k])))]
    IN  [dist2    |-> Norm(NormSq(dP)),
         divisors |-> IF IsParallel(D) THEN <<ParallelDivisor(b, c)>> ELSE <<D, D>>]

closest_distance_between_segments(p1, p2, q1, q2) == ClosestCall(p1, p2, q1, q2).dist2

\* The position (x, y, z) of a waypoint, as integers and as rationals.
Pos(wp) == <<wp.x, wp.y, wp.z>>

RPos(wp) == <<I(wp.x), I(wp.y), I(wp.z)>>

\* Variant of frac without the clamp.
InterpFracUnclamped(t1, t2, t) == RDiv(RSub(t, I(t1)), I(t2 - t1))

\* "frac = (t - t1) / (t2 - t1)" then "max(0.0, min(1.0, frac))"
InterpFrac(t1, t2, t) == Clamp01(RDiv(RSub(t, I(t1)), I(t2 - t1)))

\* wp1, wp2: waypoints [x, y, z, time]; t: a rational instant.  The result
\* is not reduced to lowest terms.
interpolate_position(wp1, wp2, t) ==
    LET t1 == wp1.time
        t2 == wp2.time
        frac == InterpFrac(t1, t2, t)
    IN  IF t1 = t2 THEN RPos(wp1)
        ELSE <<RAdd(I(wp1.x), RMul(frac, I(wp2.x - wp1.x))),
               RAdd(I(wp1.y), RMul(frac, I(wp2.y - wp1.y))),
               RAdd(I(wp1.z), RMul(frac, I(wp2.z - wp1.z)))>>

(***************************************************************************)
(* The geometry kernel in doubles                                          *)
(*                                                                         *)
(* The same computations with every operation rounded as the code rounds   *)
(* it.  Integer operands (np.int64 dot products, waypoint fields) are      *)
(* exact; a float comes in with the first true division.                   *)
(***************************************************************************)
FPyMin(x, y) == IF FLt(y, x) THEN y ELSE x

FPyMax(x, y) == IF FLt(x, y) THEN y ELSE x

\* max(0.0, min(1.0, x)) of a finite double
FClamp01(x) == IF x.sgn = 0 THEN FZero ELSE FPyMax(FZero, FPyMin(FInt(1), x))

\* np.linalg.norm of three doubles: sqrt((x*x + y*y) + z*z)
FNorm(r) ==
    IF r[1].sgn = 0 /\ r[2].sgn = 0 /\ r[3].sgn = 0 THEN FZero
    ELSE FSqrt(FAdd(FAdd(FMul(r[1], r[1]), FMul(r[2], r[2])), FMul(r[3], r[3])))

\* "dP = w + (sc * u) - (tc * v)" and its norm, in doubles
SeparationDouble(u, v, w, sc, tc) ==
    FNorm(<<FSub(FAdd(FInt(w[1]), FMul(sc, FInt(u[1]))), FMul(tc, FInt(v[1]))),
            FSub(FAdd(FInt(w[2]), FMul(sc, FInt(u[2]))), FMul(tc, FInt(v[2]))),
            FSub(FAdd(FInt(w[3]), FMul(sc, FInt(u[3]))), FMul(tc, FInt(v[3])))>>)

\* The double closest_distance_between_segments returns on integer points.
\* A quotient with a zero divisor is nan or an infinity and its clamp is
\* 0.0 or 1.0, as Clamp01 computes it.
closest_distance_double(p1, p2, q1, q2) ==
    LET u == VSub(p2, p1)
        v == VSub(q2, q1)
        w == VSub(p1, q1)
        a == Dot(u, u)
        b == Dot(u, v)
        c == Dot(v, v)
        d == Dot(u, w)
        e == Dot(v, w)
        D == a * c - b * b
        sc == IF IsParallel(D) THEN FZero
              ELSE FClamp01(FDiv(FInt(b * e - c * d), FInt(D)))
        tc == IF ~IsParallel(D) THEN FClamp01(FDiv(FInt(a * e - b * d), FInt(D)))
              ELSE IF ParallelDivisor(b, c) = 0
                   THEN FInt(Clamp01(ParallelTc(b, c, d, e))[1])
              ELSE FClamp01(FDiv(FInt(IF b > c THEN d ELSE e),
                                 FInt(ParallelDivisor(b, c))))
    IN  SeparationDouble(u, v, w, sc, tc)

\* interpolate_position at the double instant t: three doubles.
\* "p1 + frac * (p2 - p1)" in doubles, one coordinate after the other
BlendDouble(p1, p2, frac) ==
    IF frac.sgn = 0 THEN <<FInt(p1[1]), FInt(p1[2]), FInt(p1[3])>>
    ELSE <<FAdd(FInt(p1[1]), FMul(frac, FInt(p2[1] - p1[1]))),
           FAdd(FInt(p1[2]), FMul(frac, FInt(p2[2] - p1[2]))),
           FAdd(FInt(p1[3]), FMul(frac, FInt(p2[3] - p1[3])))>>

interpolate_position_double(wp1, wp2, t) ==
    IF wp1.time = wp2.time THEN <<FInt(wp1.x), FInt(wp1.y), FInt(wp1.z)>>
    ELSE BlendDouble(Pos(wp1), Pos(wp2),
                     FClamp01(FDiv(FSub(t, FInt(wp1.time)), FInt(wp2.time - wp1.time))))

(***************************************************************************)
(* Conflict detector                                                       *)
(***************************************************************************)
IMax(m, n) == IF m >= n THEN m ELSE n

IMin(m, n) == IF m <= n THEN m ELSE n

\* min(wp["time"] for wp in schedule["waypoints"]) and the max.
schedule_start(schedule) ==
    CHOOSE t \in {schedule.waypoints[n].time : n \in DOMAIN schedule.waypoints} :
        \A n \in DOMAIN schedule.waypoints : t <= schedule.waypoints[n].time

schedule_end(schedule) ==
    CHOOSE t \in {schedule.waypoints[n].time : n \in DOMAIN schedule.waypoints} :
        \A n \in DOMAIN schedule.waypoints : t >= schedule.waypoints[n].time

\* Variant of the prune that forgets the trajectories that start after the window.
PrunedOnlyBefore(schedule, time_window) == schedule_end(schedule) < time_window.start

\* "if schedule_end < t_start or schedule_start > t_end: return conflicts"
Pruned(schedule, time_window) ==
    \/ schedule_end(schedule) < time_window.start
    \/ schedule_start(schedule) > time_window.end

\* schedule.get("drone_id", "unknown")
DroneId(schedule) ==
    IF "drone_id" \in DOMAIN schedule THEN schedule.drone_id ELSE "unknown"

\* Variant of the buffer test: "dist > safety_buffer".
UnderBufferReversed(dist2, dist, safety_buffer) ==
    RLt(I(safety_buffer * safety_buffer), dist2)

\* "dist < safety_buffer" for safety_buffer >= 0.  dist2 is the exact
\* squared distance and dist the double the code computed.  Away from
\* dist2 = safety_buffer^2 the rounding of dist cannot change the outcome;
\* at it the doubles are compared.  A norm is never below 0.
UnderBuffer(dist2, dist, safety_buffer) ==
    IF ~REq(dist2, I(safety_buffer * safety_buffer))
    THEN RLt(dist2, I(safety_buffer * safety_buffer))
    ELSE safety_buffer # 0 /\ FLt(dist, FInt(safety_buffer))

\* Variant of the overlap test that wants an interval of positive length.
SegmentsOverlapStrict(t1_m, t2_m, t1_s, t2_s) == IMax(t1_m, t1_s) < IMin(t2_m, t2_s)

\* "if max(t1_m, t1_s) <= min(t2_m, t2_s)"
SegmentsOverlap(t1_m, t2_m, t1_s, t2_s) == IMax(t1_m, t1_s) <= IMin(t2_m, t2_s)

\* The record appended for mission segment i and schedule segment j
\* (0-based, as in the code).
SpatialRecord(mw, sw, i, j) ==
    LET p1 == Pos(mw[i + 1])
        p2 == Pos(mw[i + 2])
        q1 == Pos(sw[j + 1])
        q2 == Pos(sw[j + 2])
    IN  [segment_mission  |-> <<i, i + 1>>,
         segment_schedule |-> <<j, j + 1>>,
         distance         |-> closest_distance_between_segments(p1, p2, q1, q2),
         location         |-> NormVec(<<RDiv(I(p1[1] + p2[1]), I(2)),
                                        RDiv(I(p1[2] + p2[2]), I(2)),
                                        RDiv(I(p1[3] + p2[3]), I(2))>>),
         time_range       |-> <<IMax(mw[i + 1].time, sw[j + 1].time),
                                IMin(mw[i + 2].time, sw[j + 2].time)>>]

\* The two nested for loops of check_spatial_conflict, from (i, j) on.
RECURSIVE SpatialLoop(_, _, _, _, _)
SpatialLoop(mw, sw, safety_buffer, i, j) ==
    IF i > Len(mw) - 2 THEN <<>>
    ELSE IF j > Len(sw) - 2 THEN SpatialLoop(mw, sw, safety_buffer, i + 1, 0)
    ELSE LET rec == SpatialRecord(mw, sw, i, j)
             hit == /\ SegmentsOverlap(mw[i + 1].time, mw[i + 2].time,
                                       sw[j + 1].time, sw[j + 2].time)
                    /\ UnderBuffer(rec.distance,
                                   closest_distance_double(Pos(mw[i + 1]), Pos(mw[i + 2]),
                                                           Pos(sw[j + 1]), Pos(sw[j + 2])),
                                   safety_buffer)
         IN  (IF hit THEN <<rec>> ELSE <<>>)
                 \o SpatialLoop(mw, sw, safety_buffer, i, j + 1)

check_spatial_conflict(mission, schedule, time_window, safety_buffer) ==
    IF Pruned(schedule, time_window) THEN <<>>
    ELSE SpatialLoop(mission.waypoints, schedule.waypoints, safety_buffer, 0, 0)

\* np.linspace(..., num=10)
NumSamples == 10

\* Sample k (0-based) of np.linspace(lo, hi, num=NumSamples):
\* lo + k * ((hi - lo) / (num - 1)).
Linspace(lo, hi, k) == RAdd(I(lo), RMul(I(k), RDiv(I(hi - lo), I(NumSamples - 1))))

\* Sample k as the double linspace stores: step = (hi - lo) / (num - 1),
\* then k * step + lo, or lo when step == 0, and the last sample set to hi.
LinspaceDouble(lo, hi, k) ==
    IF hi = lo THEN FInt(lo)
    ELSE IF k = NumSamples - 1 THEN FInt(hi)
    ELSE FAdd(FMul(FInt(k), FDiv(FInt(hi - lo), FInt(NumSamples - 1))), FInt(lo))

\* The integer a limb sequence stands for (small values only).
BToInt(a) == BGet(a, 1) + Limb * BGet(a, 2)

\* np.rint of a double: the nearest integer, ties to the even one.
FRint(a) ==
    IF a.sgn = 0 THEN 0
    ELSE IF a.exp >= 0 THEN a.sgn * BToInt(BShl(a.man, a.exp))
    ELSE LET s    == -a.exp
             n    == BShr(a.man, s)
             rem  == BSub(a.man, BShl(n, s))
             half == BCmp(BShl(rem, 1), BShl(BInt(1), s))
             up   == half > 0 \/ (half = 0 /\ BIsOdd(n))
         IN  a.sgn * (BToInt(n) + (IF up THEN 1 ELSE 0))

\* round(x, 2) of a float64 x: rint(x * 100) / 100.  r is the exact value
\* and x the double.  Off a tie of r * 100 the rounding of x cannot change
\* the nearest integer; at a tie the double decides.
Round2(r, x) ==
    LET q   == 100 * r[1]
        fl  == q \div r[2]
        rem == q - fl * r[2]
        m   == IF 2 * rem < r[2] THEN fl
               ELSE IF 2 * rem > r[2] THEN fl + 1
               ELSE FRint(FMul(x, FInt(100)))
    IN  Norm(<<m, 100>>)

\* pos_key = (round(pos_m[0], 2), round(pos_m[1], 2), round(pos_m[2], 2), round(t, 2))
\* pos_m, t: exact; fpos_m, ft: the doubles.
PosKey(pos_m, t, fpos_m, ft) ==
    <<Round2(pos_m[1], fpos_m[1]), Round2(pos_m[2], fpos_m[2]),
      Round2(pos_m[3], fpos_m[3]), Round2(t, ft)>>

\* "time <= t" and "t <= time" for a waypoint time and the double t
TimeLe(time, ft) == FLe(FInt(time), ft)

TimeGe(time, ft) == FLe(ft, FInt(time))

\* "wp[n].time <= t <= wp[n+1].time" for the 0-based segment n.
Contains(wps, n, ft) == TimeLe(wps[n + 1].time, ft) /\ TimeGe(wps[n + 2].time, ft)

\* Lines 185-194: acc with the record appended when the schedule segment
\* contains the instant, the distance is under the buffer and the key is
\* new; acc otherwise.  dist is the exact squared distance, fdist the double.
SampleRecord(sched, safety_buffer, t, pos_m, dist, fdist, pos_key, within, acc) ==
    IF within /\ UnderBuffer(dist, fdist, safety_buffer)
              /\ pos_key \notin acc.seen_positions
    THEN [conflicts |->
              Append(acc.conflicts,
                     [time |-> Norm(t), location |-> NormVec(pos_m),
                      distance |-> Norm(dist), drone_id |-> DroneId(sched)]),
          seen_positions |-> acc.seen_positions \cup {pos_key}]
    ELSE acc

\* Lines 184 and 186 for one pair of positions: "dist" and "pos_key".
\* pos_m, pos_s and t are exact, fpos_m, fpos_s and ft the doubles.
SamplePair(sched, safety_buffer, t, ft, pos_m, pos_s, fpos_m, fpos_s, within, acc) ==
    SampleRecord(sched, safety_buffer, t, pos_m,
                 NormSq(<<RSub(pos_m[1], pos_s[1]), RSub(pos_m[2], pos_s[2]),
                          RSub(pos_m[3], pos_s[3])>>),
                 FNorm(<<FSub(fpos_m[1], fpos_s[1]), FSub(fpos_m[2], fpos_s[2]),
                         FSub(fpos_m[3], fpos_s[3])>>),
                 PosKey(pos_m, t, fpos_m, ft), within, acc)

\* The two inner for loops of check_temporal_conflict at the sample instant t,
\* from mission segment i and schedule segment j on;
\* acc = [conflicts, seen_positions]; ft is the double of t.
RECURSIVE SampleLoop(_, _, _, _, _, _, _, _)
SampleLoop(mw, sched, safety_buffer, t, ft, i, j, acc) ==
    IF i > Len(mw) - 2 THEN acc
    ELSE IF j > Len(sched.waypoints) - 2 \/ ~Contains(mw, i, ft)
         THEN SampleLoop(mw, sched, safety_buffer, t, ft, i + 1, 0, acc)
    ELSE SampleLoop(mw, sched, safety_buffer, t, ft, i, j + 1,
             SamplePair(sched, safety_buffer, t, ft,
                 interpolate_position(mw[i + 1], mw[i + 2], t),
                 interpolate_position(sched.waypoints[j + 1], sched.waypoints[j + 2], t),
                 interpolate_position_double(mw[i + 1], mw[i + 2], ft),
                 interpolate_position_double(sched.waypoints[j + 1],
                                             sched.waypoints[j + 2], ft),
                 Contains(sched.waypoints, j, ft), acc))

RECURSIVE TemporalLoop(_, _, _, _, _, _, _, _)

\* Samples k1 to k2, the samples before them done; after holds the lists as
\* those left them, which are those of acc unless they added a record.
TemporalStep(mw, sched, safety_buffer, lo, hi, k1, k2, acc, after) ==
    IF Len(after.conflicts) = Len(acc.conflicts)
    THEN TemporalLoop(mw, sched, safety_buffer, lo, hi, k1, k2, acc)
    ELSE TemporalLoop(mw, sched, safety_buffer, lo, hi, k1, k2, after)

\* "for t in time_steps" over samples k1 to k2, in order: the first half of
\* them, then the rest from the lists the first half left.
TemporalLoop(mw, sched, safety_buffer, lo, hi, k1, k2, acc) ==
    IF k1 = k2
    THEN SampleLoop(mw, sched, safety_buffer, Linspace(lo, hi, k1),
                    LinspaceDouble(lo, hi, k1), 0, 0, acc)
    ELSE TemporalStep(mw, sched, safety_buffer, lo, hi, (k1 + k2) \div 2 + 1, k2, acc,
             TemporalLoop(mw, sched, safety_buffer, lo, hi, k1, (k1 + k2) \div 2, acc))

check_temporal_conflict(mission, schedule, time_window, safety_buffer) ==
    IF Pruned(schedule, time_window) THEN <<>>
    ELSE TemporalLoop(mission.waypoints, schedule, safety_buffer,
                      IMax(time_window.start, schedule_start(schedule)),
                      IMin(time_window.end, schedule_end(schedule)),
                      0, NumSamples - 1,
                      [conflicts |-> <<>>, seen_positions |-> {}]).conflicts

\* Lines 203-207: the tags check_mission_safety puts on the records.
TagSpatial(recs, schedule) ==
    [n \in DOMAIN recs |->
        [segment_mission  |-> recs[n].segment_mission,
         segment_schedule |-> recs[n].segment_schedule,
         distance         |-> recs[n].distance,
         location         |-> recs[n].location,
         time_range       |-> recs[n].time_range,
         drone_id         |-> DroneId(schedule),
         type             |-> "spatial"]]

TagTemporal(recs) ==
    [n \in DOMAIN recs |->
        [time     |-> recs[n].time,
         location |-> recs[n].location,
         distance |-> recs[n].distance,
         drone_id |-> recs[n].drone_id,
         type     |-> "temporal"]]

\* Variant of the iteration with the temporal records first.
ScheduleConflictsTemporalFirst(mission, schedule, safety_buffer) ==
    TagTemporal(check_temporal_conflict(mission, schedule, mission.time_window,
                                        safety_buffer))
    \o TagSpatial(check_spatial_conflict(mission, schedule, mission.time_window,
                                         safety_buffer), schedule)

\* One iteration of "for schedule in schedules": what conflicts.extend receives.
ScheduleConflicts(mission, schedule, safety_buffer) ==
    TagSpatial(check_spatial_conflict(mission, schedule, mission.time_window,
                                      safety_buffer), schedule)
    \o TagTemporal(check_temporal_conflict(mission, schedule, mission.time_window,
                                           safety_buffer))

\* Variant of the status with the test inverted.
StatusInverted(conflicts) == IF conflicts = <<>> THEN "conflict detected" ELSE "clear"

\* "clear" if not conflicts else "conflict detected"
Status(conflicts) == IF conflicts = <<>> THEN "clear" ELSE "conflict detected"

\* check_mission_safety as a function of its arguments: the loop from
\* schedule n on, and the dictionary returned.
RECURSIVE AllConflicts(_, _, _, _)
AllConflicts(m, ss, b, n) ==
    IF n > Len(ss) THEN <<>>
    ELSE ScheduleConflicts(m, ss[n], b) \o AllConflicts(m, ss, b, n + 1)

check_mission_safety(m, ss, b) ==
    LET found == AllConflicts(m, ss, b, 1)
    IN  [status |-> Status(found), details |-> found]

(***************************************************************************)
(* Bounds of the model and the input sets drawn from them                  *)
(***************************************************************************)
MaxCoord == 1

MaxTime == 2

MaxBuffer == 2

MaxGrid == 2

MaxSchedules == 2

Coords == 0..MaxCoord

Times == 0..MaxTime

Buffers == 0..MaxBuffer

\* The grid the kernel is called on.
Points == (0..MaxGrid) \X (0..MaxGrid) \X (0..MaxGrid)

\* The corners of a tilted square of side MaxCoord: the positions the
\* trajectories visit.
Corners == {<<x, y, y>> : x \in {0, MaxCoord}, y \in {0, MaxCoord}}

Origin == <<0, 0, 0>>

Far == <<MaxCoord, MaxCoord, MaxCoord>>

DroneNames == <<"d1", "d2", "d3", "d4">>

WP(p, t) == [x |-> p[1], y |-> p[2], z |-> p[3], time |-> t]

\* Trajectories of n waypoints at the given positions, times not decreasing.
Trajectories(n, positions) ==
    {w \in [1..n -> {WP(p, t) : p \in positions, t \in Times}] :
        \A m \in 1..(n - 1) : w[m].time <= w[m + 1].time}

TimeWindows == {tw \in [start : Times, end : Times] : tw.start <= tw.end}

\* Instants in halves and thirds, from before 0 to after MaxTime.
Instants == {<<n, d>> : n \in (-1)..(3 * MaxTime + 1), d \in {2, 3}}

(***************************************************************************)
(* State                                                                   *)
(***************************************************************************)
VARIABLES
    pc,             \* where the call in progress stands
    mission,        \* check_mission_safety: [waypoints, time_window]
    schedules,      \* check_mission_safety: the other trajectories
    safety_buffer,  \* check_mission_safety: the buffer
    idx,            \* the schedule the for loop of line 200 takes next
    conflicts,      \* the list "conflicts" of check_mission_safety
    result,         \* what check_mission_safety returned
    kargs,          \* closest_distance_between_segments: <<p1, p2, q1, q2>>
    kret,           \* its call: [dist2, divisors]
    iargs,          \* interpolate_position: <<wp1, wp2, t>>
    iret,           \* its result
    dargs,          \* check_spatial_conflict, check_temporal_conflict:
                    \* [mission, schedule, time_window, safety_buffer]
    sret,           \* the list check_spatial_conflict returned
    tret            \* the list check_temporal_conflict returned

vars == <<pc, mission, schedules, safety_buffer, idx, conflicts, result,
          kargs, kret, iargs, iret, dargs, sret, tret>>

None == "None"

kernelVars == <<kargs, kret>>

interpVars == <<iargs, iret>>

safetyVars == <<mission, schedules, safety_buffer, idx, conflicts, result>>

NoSafety ==
    /\ mission = None /\ schedules = <<>> /\ safety_buffer = 0
    /\ idx = 0 /\ conflicts = <<>> /\ result = None

NoKernel == kargs = None /\ kret = None

NoInterp == iargs = None /\ iret = None

detectorVars == <<dargs, sret, tret>>

NoDetector == dargs = None /\ sret = None /\ tret = None

(***************************************************************************)
(* check_mission_safety                                                    *)
(***************************************************************************)
\* check_mission_safety(m, ss, b) has been entered: "conflicts = []".
SafetyCall(m, ss, b) ==
    /\ pc = "loop"
    /\ mission = m
    /\ schedules = ss
    /\ safety_buffer = b
    /\ idx = 1
    /\ conflicts = <<>>
    /\ result = None
    /\ NoKernel /\ NoInterp /\ NoDetector

\* One iteration of "for schedule in schedules" (lines 200-208).
LoopBody ==
    /\ pc = "loop"
    /\ idx <= Len(schedules)
    /\ conflicts' = conflicts \o ScheduleConflicts(mission, schedules[idx], safety_buffer)
    /\ idx' = idx + 1
    /\ UNCHANGED <<pc, mission, schedules, safety_buffer, result, kernelVars, interpVars,
                   detectorVars>>

\* The return statement (lines 209-212).
Return ==
    /\ pc = "loop"
    /\ idx > Len(schedules)
    /\ result' = [status |-> Status(conflicts), details |-> conflicts]
    /\ pc' = "returned"
    /\ UNCHANGED <<mission, schedules, safety_buffer, idx, conflicts, kernelVars, interpVars,
                   detectorVars>>

NextSafety == LoopBody \/ Return

\* The mission flies from the origin at time 0 to a corner; one other drone
\* with one or two waypoints.
\* Paths with a perpendicular translate at an integer distance that is
\* not along an axis: the mission leaves a point of the vertical axis by
\* one grid step, the other drone flies the same path moved by a vector of
\* length 3 (the shortest such vectors, (1, 2, 2) with its permutations and
\* signs), at the same times, which are the window; the buffer is one of
\* the two largest.
TranslateStarts == {<<0, 0, z>> : z \in 0..MaxGrid}

TranslateSteps == {d \in {-1, 0, 1} \X {-1, 0, 1} \X {-1, 0, 1} : d # Origin}

TranslateOffsets ==
    {w \in (-2..2) \X (-2..2) \X (-2..2) : Dot(w, w) = 9}

VAdd(p, q) == <<p[1] + q[1], p[2] + q[2], p[3] + q[3]>>

InitTranslate ==
    \E p \in TranslateStarts, d \in TranslateSteps, w \in TranslateOffsets :
      \E t2 \in {MaxTime}, b \in {MaxBuffer, MaxBuffer + 1} :
        /\ Dot(d, w) = 0
        /\ SafetyCall([waypoints |-> <<WP(p, 0), WP(VAdd(p, d), t2)>>,
                        time_window |-> [start |-> 0, end |-> t2]],
                       <<[drone_id |-> "d1",
                          waypoints |-> <<WP(VAdd(p, w), 0), WP(VAdd(VAdd(p, d), w), t2)>>]>>,
                       b)

Init ==
    \/ \E p \in Corners, t2 \in Times, tw \in TimeWindows, b \in Buffers :
         \E s \in Trajectories(1, Corners) \cup Trajectories(2, Corners) :
           SafetyCall([waypoints |-> <<WP(Origin, 0), WP(p, t2)>>, time_window |-> tw],
                      <<[drone_id |-> "d1", waypoints |-> s]>>, b)
    \/ InitTranslate

Spec == Init /\ [][NextSafety]_vars

\* A fleet: the mission flies from the origin to a corner over the whole
\* window; up to MaxSchedules other drones fly from a corner to the origin
\* or to the far corner over the same time.
FleetTrajectories ==
    {<<WP(q1, 0), WP(q2, MaxTime)>> : q1 \in Corners, q2 \in {Origin, Far}}

Fleets ==
    UNION {[1..n -> FleetTrajectories] : n \in 0..MaxSchedules}

InitFleet ==
    \E p \in Corners, b \in Buffers, f \in Fleets :
        SafetyCall([waypoints |-> <<WP(Origin, 0), WP(p, MaxTime)>>,
                    time_window |-> [start |-> 0, end |-> MaxTime]],
                   [n \in DOMAIN f |->
                       [drone_id |-> DroneNames[((n - 1) % 4) + 1], waypoints |-> f[n]]],
                   b)

SpecFleet == InitFleet /\ [][NextSafety]_vars

(***************************************************************************)
(* closest_distance_between_segments and interpolate_position, called       *)
(* on their own                                                            *)
(***************************************************************************)
KernelCall ==
    /\ pc = "kernel"
    /\ kret' = ClosestCall(kargs[1], kargs[2], kargs[3], kargs[4])
    /\ pc' = "kernel returned"
    /\ UNCHANGED <<kargs, safetyVars, interpVars, detectorVars>>

InitKernel ==
    /\ pc = "kernel"
    /\ kargs \in Points \X Points \X Points \X Points
    /\ kret = None
    /\ NoSafety /\ NoInterp /\ NoDetector

SpecKernel == InitKernel /\ [][KernelCall]_vars

InterpCall ==
    /\ pc = "interp"
    /\ iret' = NormVec(interpolate_position(iargs[1], iargs[2], iargs[3]))
    /\ pc' = "interp returned"
    /\ UNCHANGED <<iargs, safetyVars, kernelVars, detectorVars>>

InitInterp ==
    /\ pc = "interp"
    /\ \E w \in Trajectories(2, Corners), t \in Instants : iargs = <<w[1], w[2], t>>
    /\ iret = None
    /\ NoSafety /\ NoKernel /\ NoDetector

SpecInterp == InitInterp /\ [][InterpCall]_vars

(***************************************************************************)
(* check_spatial_conflict, called on its own                               *)
(***************************************************************************)
SpatialCall ==
    /\ pc = "spatial"
    /\ sret' = check_spatial_conflict(dargs.mission, dargs.schedule, dargs.time_window,
                                      dargs.safety_buffer)
    /\ pc' = "spatial returned"
    /\ UNCHANGED <<dargs, tret, safetyVars, kernelVars, interpVars>>

\* Trajectories of one to three waypoints.  The mission starts at the origin
\* at time 0 and visits the origin and the far corner; the other drone
\* visits the origin, the far corner and the corner beside the origin.
MissionTrajectories ==
    {w \in UNION {Trajectories(n, {Origin, Far}) : n \in 1..3} :
        w[1] = WP(Origin, 0)}

OtherTrajectories ==
    UNION {Trajectories(n, {Origin, Far, <<MaxCoord, 0, 0>>}) : n \in 1..3}

DetectorWindows ==
    {[start |-> 0, end |-> 0], [start |-> 0, end |-> MaxTime],
     [start |-> MaxTime, end |-> MaxTime]}

DetectorArgs ==
    [mission : [waypoints : MissionTrajectories],
     schedule : [drone_id : {"d1"}, waypoints : OtherTrajectories],
     time_window : DetectorWindows,
     safety_buffer : Buffers]

\* Segments that cross the grid of the kernel between grid points: the
\* mission flies from the vertical axis to the opposite vertical edge, the
\* other drone from the vertical line through <<1, 1, 0>> to any grid
\* point, both over the whole window.
GrazingArgs ==
    {[mission |-> [waypoints |-> <<WP(<<0, 0, z1>>, 0),
                                   WP(<<MaxGrid, MaxGrid, z2>>, MaxTime)>>],
      schedule |-> [drone_id |-> "d1",
                    waypoints |-> <<WP(<<1, 1, z3>>, 0), WP(q, MaxTime)>>],
      time_window |-> [start |-> 0, end |-> MaxTime],
      safety_buffer |-> b] :
        z1 \in 0..MaxGrid, z2 \in 0..MaxGrid, z3 \in 0..MaxGrid, q \in Points, b \in Buffers}

InitSpatial ==
    /\ pc = "spatial"
    /\ dargs \in DetectorArgs \cup GrazingArgs
    /\ sret = None /\ tret = None
    /\ NoSafety /\ NoKernel /\ NoInterp

SpecSpatial == InitSpatial /\ [][SpatialCall]_vars

(***************************************************************************)
(* check_temporal_conflict, called on its own                              *)
(***************************************************************************)
TemporalCall ==
    /\ pc = "temporal"
    /\ tret' = check_temporal_conflict(dargs.mission, dargs.schedule, dargs.time_window,
                                       dargs.safety_buffer)
    /\ pc' = "temporal returned"
    /\ UNCHANGED <<dargs, sret, safetyVars, kernelVars, interpVars>>

\* Both drones visit the origin and the far corner, in one to three
\* waypoints; consecutive waypoints may share a time or a position.
SampledArgs ==
    [mission : [waypoints : MissionTrajectories],
     schedule : [drone_id : {"d1"},
                 waypoints : UNION {Trajectories(n, {Origin, Far}) : n \in 1..3}],
     time_window : DetectorWindows,
     safety_buffer : Buffers]

InitTemporal ==
    /\ pc = "temporal"
    /\ dargs \in SampledArgs
    /\ sret = None /\ tret = None
    /\ NoSafety /\ NoKernel /\ NoInterp

SpecTemporal == InitTemporal /\ [][TemporalCall]_vars

(***************************************************************************)
(* Properties of check_mission_safety on one other trajectory (Spec)       *)
(***************************************************************************)
\* check_mission_safety has returned.
Done == pc = "returned"

Spatial(details) == SelectSeq(details, LAMBDA r : r.type = "spatial")

Temporal(details) == SelectSeq(details, LAMBDA r : r.type = "temporal")

\* C1: the status returned is "conflict detected" exactly when the details
\* are not empty and "clear" exactly when they are empty; there is no other
\* status.
C1_StatusIffDetails ==
    Done =>
        /\ result.status \in {"clear", "conflict detected"}
        /\ (result.status = "conflict detected") <=> (result.details # <<>>)
        /\ (result.status = "clear") <=> (result.details = <<>>)

C1_Witness ==
    /\ Done
    /\ result.status = "conflict detected"
    /\ Len(result.details) >= 2

\* Every waypoint of the trajectory lies before the window, or every one after.
OutsideWindow(schedule, tw) ==
    \/ \A n \in DOMAIN schedule.waypoints : schedule.waypoints[n].time < tw.start
    \/ \A n \in DOMAIN schedule.waypoints : schedule.waypoints[n].time > tw.end

\* C2: when the time span of every other trajectory misses the mission time
\* window, the result is "clear" with no details, wherever the waypoints are.
C2_DisjointTimesClear ==
    (Done /\ \A n \in DOMAIN schedules : OutsideWindow(schedules[n], mission.time_window))
        => result = [status |-> "clear", details |-> <<>>]

\* The other drone flies the mission's own path, within the buffer, after the
\* window has closed.
C2_Witness ==
    /\ Done
    /\ Len(schedules) = 1
    /\ OutsideWindow(schedules[1], mission.time_window)
    /\ Len(schedules[1].waypoints) = 2
    /\ \A n \in 1..2 : Pos(schedules[1].waypoints[n]) = Pos(mission.waypoints[n])
    /\ Pos(mission.waypoints[1]) # Pos(mission.waypoints[2])
    /\ schedules[1].waypoints[1].time > mission.time_window.end
    /\ schedules[1].waypoints[1].time < mission.waypoints[2].time
    /\ safety_buffer > 0
    /\ result.status = "clear"

\* The other trajectory is the two-waypoint mission path moved by a vector
\* perpendicular to it, flown at the same times, which cover the window.
Translated ==
    /\ Len(schedules) = 1
    /\ Len(mission.waypoints) = 2
    /\ Len(schedules[1].waypoints) = 2
    /\ \A n \in 1..2 : schedules[1].waypoints[n].time = mission.waypoints[n].time
    /\ mission.waypoints[1].time <= mission.time_window.start
    /\ mission.time_window.end <= mission.waypoints[2].time
    /\ VSub(Pos(schedules[1].waypoints[1]), Pos(mission.waypoints[1]))
         = VSub(Pos(schedules[1].waypoints[2]), Pos(mission.waypoints[2]))
    /\ Dot(VSub(Pos(schedules[1].waypoints[1]), Pos(mission.waypoints[1])),
           VSub(Pos(mission.waypoints[2]), Pos(mission.waypoints[1]))) = 0

\* The square of the separation L of the two paths.
SeparationSq ==
    Dot(VSub(Pos(schedules[1].waypoints[1]), Pos(mission.waypoints[1])),
        VSub(Pos(schedules[1].waypoints[1]), Pos(mission.waypoints[1])))

\* C3: for a path and its perpendicular translate at constant separation L,
\* flown at the same times covering the window, the result is "conflict
\* detected" with a spatial record of distance L when L < buffer, and "clear"
\* with no details when buffer <= L.
C3_ConstantSeparation ==
    (Done /\ Translated) =>
        IF SeparationSq < safety_buffer * safety_buffer
        THEN /\ result.status = "conflict detected"
             /\ \E n \in DOMAIN result.details :
                  /\ result.details[n].type = "spatial"
                  /\ result.details[n].distance = I(SeparationSq)
        ELSE result = [status |-> "clear", details |-> <<>>]

\* The numbers of spatial and of temporal records of a result.
Counts(res) == <<Len(Spatial(res.details)), Len(Temporal(res.details))>>

\* C4: with the mission and the other trajectories fixed, a larger buffer
\* gives at least as many spatial records and at least as many temporal
\* records, so a conflict at a buffer is a conflict at every larger one.
\* Stated from each buffer b to b + 1, for every b in 0..MaxBuffer: the
\* step from b1 to any b2 >= b1 is a chain of these.
C4_MonotoneInBuffer ==
    Done =>
        LET larger == check_mission_safety(mission, schedules, safety_buffer + 1)
        IN  /\ Counts(larger)[1] >= Counts(result)[1]
            /\ Counts(larger)[2] >= Counts(result)[2]
            /\ (result.status = "conflict detected"
                    => larger.status = "conflict detected")

\* Both kinds of record are present, and a larger buffer adds more of each.
C4_Witness ==
    /\ Done
    /\ Counts(result)[1] > 0
    /\ Counts(result)[2] > 0
    /\ LET larger == check_mission_safety(mission, schedules, safety_buffer + 1)
       IN  /\ Counts(larger)[1] >= Counts(result)[1]
           /\ Counts(larger)[2] > Counts(result)[2]

\* A stationary other drone: one waypoint, at a time inside the window and
\* inside the mission segment's time span, closer than the buffer to where
\* the mission is at that time.
HoveringIntruder ==
    /\ Len(schedules) = 1
    /\ Len(schedules[1].waypoints) = 1
    /\ Len(mission.waypoints) = 2
    /\ LET o == schedules[1].waypoints[1]
           at == interpolate_position(mission.waypoints[1], mission.waypoints[2], I(o.time))
       IN  /\ mission.time_window.start <= o.time
           /\ o.time <= mission.time_window.end
           /\ mission.waypoints[1].time <= o.time
           /\ o.time <= mission.waypoints[2].time
           /\ RLt(NormSq(<<RSub(at[1], I(o.x)), RSub(at[2], I(o.y)),
                           RSub(at[3], I(o.z))>>), I(safety_buffer * safety_buffer))

\* C6: such a drone gives no spatial record and at least one temporal
\* record, so the result is "conflict detected".
C6_SingleWaypointTemporal ==
    (Done /\ HoveringIntruder) =>
        /\ Spatial(result.details) = <<>>
        /\ Temporal(result.details) # <<>>
        /\ result.status = "conflict detected"

\* The other trajectory a record of the details names.
C13_Schedule(r) == schedules[CHOOSE n \in DOMAIN schedules : schedules[n].drone_id = r.drone_id]

\* C13: every record check_mission_safety reports concerns the mission
\* time window: a spatial record's time_range [a, b] meets the window
\* (a <= end and b >= start), and a temporal record's time lies in the
\* window and in the time span of the other trajectory.
C13_RecordsConcernWindow ==
    Done =>
        \A n \in DOMAIN result.details :
            LET r  == result.details[n]
                tw == mission.time_window
            IN  IF r.type = "spatial"
                THEN /\ r.time_range[1] <= tw.end
                     /\ r.time_range[2] >= tw.start
                ELSE /\ RLe(I(tw.start), r.time) /\ RLe(r.time, I(tw.end))
                     /\ RLe(I(schedule_start(C13_Schedule(r))), r.time)
                     /\ RLe(r.time, I(schedule_end(C13_Schedule(r))))

(***************************************************************************)
(* Properties of check_mission_safety on a fleet (SpecFleet)               *)
(***************************************************************************)
\* The records the n-th other trajectory contributes: what
\* check_spatial_conflict returns for it, labelled "spatial" and with its
\* drone id, then what check_temporal_conflict returns, labelled "temporal".
C5_Block(n) ==
    LET sp == check_spatial_conflict(mission, schedules[n], mission.time_window,
                                     safety_buffer)
        tp == check_temporal_conflict(mission, schedules[n], mission.time_window,
                                      safety_buffer)
    IN  [k \in 1..(Len(sp) + Len(tp)) |->
            IF k <= Len(sp)
            THEN [type |-> "spatial", drone_id |-> schedules[n].drone_id] @@ sp[k]
            ELSE [type |-> "temporal"] @@ tp[k - Len(sp)]]

RECURSIVE C5_Concat(_)
C5_Concat(n) ==
    IF n > Len(schedules) THEN <<>> ELSE C5_Block(n) \o C5_Concat(n + 1)

\* The place in the input of the trajectory a record names.
C5_Place(r) == CHOOSE n \in DOMAIN schedules : schedules[n].drone_id = r.drone_id

\* C5: the details are the concatenation, over the other trajectories in
\* input order, of the trajectory's spatial records followed by its temporal
\* records; every record is labelled "spatial" or "temporal" and carries the
\* drone id of its trajectory; no record of a later trajectory precedes one
\* of an earlier trajectory, and within a trajectory no temporal record
\* precedes a spatial one; the details for a list A ++ B are the details for
\* A followed by the details for B.
C5_DetailsInInputOrder ==
    Done =>
        /\ result.details = C5_Concat(1)
        /\ \A k \in DOMAIN result.details :
             /\ result.details[k].type \in {"spatial", "temporal"}
             /\ \E n \in DOMAIN schedules : schedules[n].drone_id = result.details[k].drone_id
        /\ \A k, l \in DOMAIN result.details :
             k < l =>
               /\ C5_Place(result.details[k]) <= C5_Place(result.details[l])
               /\ (/\ C5_Place(result.details[k]) = C5_Place(result.details[l])
                   /\ result.details[k].type = "temporal")
                      => result.details[l].type = "temporal"
        /\ \A k \in 1..(Len(schedules) - 1) :
             result.details
               = check_mission_safety(mission, SubSeq(schedules, 1, k),
                                      safety_buffer).details
                 \o check_mission_safety(mission, SubSeq(schedules, k + 1, Len(schedules)),
                                         safety_buffer).details

\* Two other drones, each with spatial and temporal records.
C5_Witness ==
    /\ Done
    /\ Len(schedules) = 2
    /\ schedules[1].waypoints # schedules[2].waypoints
    /\ \A n \in 1..2 : \E k, l \in DOMAIN result.details :
          /\ result.details[k].drone_id = schedules[n].drone_id
          /\ result.details[l].drone_id = schedules[n].drone_id
          /\ result.details[k].type = "spatial"
          /\ result.details[l].type = "temporal"

(***************************************************************************)
(* Properties of the geometry kernel (SpecKernel, SpecInterp)              *)
(***************************************************************************)
KernelDone == pc = "kernel returned"

\* C7: closest_distance_between_segments never divides by exactly zero,
\* also when a segment is a single point.
C7_NoDivisionByZero ==
    KernelDone => \A n \in DOMAIN kret.divisors : kret.divisors[n] # 0

\* [p1, p2] and [q1, q2] are parallel segments of positive length, and the
\* projection of one onto their common direction contains the projection of
\* the other.
ParallelOverlapping(p1, p2, q1, q2) ==
    LET u  == VSub(p2, p1)
        v  == VSub(q2, q1)
        s1 == Dot(VSub(q1, p1), u)
        s2 == Dot(VSub(q2, p1), u)
    IN  /\ Dot(u, u) > 0
        /\ Dot(v, v) > 0
        /\ Dot(u, u) * Dot(v, v) = Dot(u, v) * Dot(u, v)
        /\ \/ 0 <= IMin(s1, s2) /\ IMax(s1, s2) <= Dot(u, u)
           \/ IMin(s1, s2) <= 0 /\ Dot(u, u) <= IMax(s1, s2)

\* The square of the perpendicular offset L between the lines of two
\* parallel segments: |w|^2 - (w.u)^2 / (u.u).
OffsetSq(p1, p2, q1) ==
    LET u == VSub(p2, p1)
        w == VSub(p1, q1)
    IN  Norm(<<Dot(w, w) * Dot(u, u) - Dot(u, w) * Dot(u, w), Dot(u, u)>>)

\* C8: for parallel segments at perpendicular offset L whose projections
\* fully overlap the kernel returns L, and for a segment and itself 0.
C8_ParallelDistance ==
    KernelDone =>
        /\ ParallelOverlapping(kargs[1], kargs[2], kargs[3], kargs[4])
              => kret.dist2 = OffsetSq(kargs[1], kargs[2], kargs[3])
        /\ (kargs[1] = kargs[3] /\ kargs[2] = kargs[4]) => kret.dist2 = Zero

InterpDone == pc = "interp returned"

\* What C9 states for one coordinate, x1 at time t1 and x2 at time t2 >= t1,
\* at the instant t = tn/td.
C9_Expected(x1, t1, x2, t2, tn, td) ==
    IF t1 = t2 THEN I(x1)
    ELSE IF tn <= t1 * td THEN I(x1)
    ELSE IF tn >= t2 * td THEN I(x2)
    ELSE <<x1 * td * (t2 - t1) + (tn - t1 * td) * (x2 - x1), td * (t2 - t1)>>

\* C9: interpolate_position returns wp1's position when the two times are
\* equal; otherwise wp1's position up to wp1.time, wp2's position from
\* wp2.time on, and in between wp1 + ((t - t1) / (t2 - t1)) * (wp2 - wp1),
\* which at the midpoint time is the midpoint of the two positions.
C9_Interpolation ==
    InterpDone =>
        LET wp1 == iargs[1]
            wp2 == iargs[2]
            tn  == iargs[3][1]
            td  == iargs[3][2]
        IN  /\ REq(iret[1], C9_Expected(wp1.x, wp1.time, wp2.x, wp2.time, tn, td))
            /\ REq(iret[2], C9_Expected(wp1.y, wp1.time, wp2.y, wp2.time, tn, td))
            /\ REq(iret[3], C9_Expected(wp1.z, wp1.time, wp2.z, wp2.time, tn, td))
            /\ (wp1.time < wp2.time /\ 2 * tn = (wp1.time + wp2.time) * td)
                  => /\ REq(iret[1], <<wp1.x + wp2.x, 2>>)
                     /\ REq(iret[2], <<wp1.y + wp2.y, 2>>)
                     /\ REq(iret[3], <<wp1.z + wp2.z, 2>>)

\* An instant strictly inside the segment, not its midpoint, on a segment
\* that moves in every coordinate.
C9_Witness ==
    /\ InterpDone
    /\ iargs[1].time * iargs[3][2] < iargs[3][1]
    /\ iargs[3][1] < iargs[2].time * iargs[3][2]
    /\ 2 * iargs[3][1] # (iargs[1].time + iargs[2].time) * iargs[3][2]
    /\ iargs[1].x # iargs[2].x /\ iargs[1].y # iargs[2].y /\ iargs[1].z # iargs[2].z
    /\ iret # RPos(iargs[1]) /\ iret # RPos(iargs[2])


(***************************************************************************)
(* Properties of check_spatial_conflict (SpecSpatial)                      *)
(***************************************************************************)
SpatialDone == pc = "spatial returned"

\* The distance closest_distance_between_segments returns for the four
\* points is strictly less than b: the exact distance is less, or it equals
\* b and the double returned is less.
C10_KernelUnder(p1, p2, q1, q2, b) ==
    LET dist2 == closest_distance_between_segments(p1, p2, q1, q2)
    IN  \/ RLt(dist2, I(b * b))
        \/ /\ REq(dist2, I(b * b))
           /\ FLt(closest_distance_double(p1, p2, q1, q2), FInt(b))

\* The (0-based) pairs of a mission segment i and a segment j of the other
\* trajectory whose time intervals share an instant and whose distance, as
\* closest_distance_between_segments returns it, is under the buffer.
C10_Pairs ==
    LET mw == dargs.mission.waypoints
        sw == dargs.schedule.waypoints
    IN  {ij \in (0..(Len(mw) - 2)) \X (0..(Len(sw) - 2)) :
            /\ IMax(mw[ij[1] + 1].time, sw[ij[2] + 1].time)
                 <= IMin(mw[ij[1] + 2].time, sw[ij[2] + 2].time)
            /\ C10_KernelUnder(Pos(mw[ij[1] + 1]), Pos(mw[ij[1] + 2]),
                               Pos(sw[ij[2] + 1]), Pos(sw[ij[2] + 2]),
                               dargs.safety_buffer)}

\* The time span of the other trajectory meets the window.
C10_SpanMeetsWindow ==
    LET times == {dargs.schedule.waypoints[n].time : n \in DOMAIN dargs.schedule.waypoints}
    IN  /\ \E t \in times : t >= dargs.time_window.start
        /\ \E t \in times : t <= dargs.time_window.end

\* C10: when the other trajectory's span meets the window,
\* check_spatial_conflict returns exactly one record for each pair (i, j)
\* whose time intervals overlap (max of the starts <= min of the ends,
\* touching included) and whose distance is strictly under the buffer, and
\* no other record; the records are ordered by i and then by j; each
\* time_range is (max of the starts, min of the ends) with first <= second;
\* a trajectory of fewer than two waypoints gives no record.
C10_SpatialRecords ==
    (SpatialDone /\ C10_SpanMeetsWindow) =>
        LET mw == dargs.mission.waypoints
            sw == dargs.schedule.waypoints
            pair(r) == <<r.segment_mission[1], r.segment_schedule[1]>>
        IN  /\ \A k \in DOMAIN sret :
                 /\ pair(sret[k]) \in C10_Pairs
                 /\ sret[k].segment_mission
                      = <<pair(sret[k])[1], pair(sret[k])[1] + 1>>
                 /\ sret[k].segment_schedule
                      = <<pair(sret[k])[2], pair(sret[k])[2] + 1>>
                 /\ sret[k].time_range
                      = <<IMax(mw[pair(sret[k])[1] + 1].time, sw[pair(sret[k])[2] + 1].time),
                          IMin(mw[pair(sret[k])[1] + 2].time, sw[pair(sret[k])[2] + 2].time)>>
                 /\ sret[k].time_range[1] <= sret[k].time_range[2]
            /\ \A ij \in C10_Pairs :
                 Cardinality({k \in DOMAIN sret : pair(sret[k]) = ij}) = 1
            /\ \A k, l \in DOMAIN sret :
                 k < l =>
                   \/ pair(sret[k])[1] < pair(sret[l])[1]
                   \/ /\ pair(sret[k])[1] = pair(sret[l])[1]
                      /\ pair(sret[k])[2] < pair(sret[l])[2]
            /\ (Len(mw) < 2 \/ Len(sw) < 2) => sret = <<>>

\* Three-waypoint trajectories, the mission one moving: records for two
\* mission segments, one of them for intervals that only touch, and a pair
\* whose intervals overlap left out for its distance.
C10_Witness ==
    /\ SpatialDone /\ C10_SpanMeetsWindow
    /\ Len(dargs.mission.waypoints) = 3
    /\ Len(dargs.schedule.waypoints) = 3
    /\ Pos(dargs.mission.waypoints[1]) # Pos(dargs.mission.waypoints[2])
    /\ dargs.safety_buffer > 0
    /\ \E i, j \in 0..1 :
          /\ <<i, j>> \notin C10_Pairs
          /\ IMax(dargs.mission.waypoints[i + 1].time, dargs.schedule.waypoints[j + 1].time)
               <= IMin(dargs.mission.waypoints[i + 2].time, dargs.schedule.waypoints[j + 2].time)
    /\ Len(sret) >= 2
    /\ Len(sret) < 4
    /\ sret[1].segment_mission # sret[Len(sret)].segment_mission
    /\ \E k \in DOMAIN sret :
          /\ sret[k].time_range[1] = sret[k].time_range[2]
          /\ dargs.mission.waypoints[sret[k].segment_mission[1] + 1].time
               < sret[k].time_range[1]

(***************************************************************************)
(* Properties of check_temporal_conflict (SpecTemporal)                    *)
(***************************************************************************)
TemporalDone == pc = "temporal returned"

\* The sample instants of a call whose trajectory is not pruned.
C11_Instants ==
    LET lo == IMax(dargs.time_window.start, schedule_start(dargs.schedule))
        hi == IMin(dargs.time_window.end, schedule_end(dargs.schedule))
    IN  {Norm(Linspace(lo, hi, k)) : k \in 0..(NumSamples - 1)}

\* The time interval of the 0-based segment n contains the instant t.
C11_Within(wps, n, t) == RLe(I(wps[n + 1].time), t) /\ RLe(t, I(wps[n + 2].time))

\* The first (0-based) segment of the waypoints whose interval contains t.
C11_First(wps, t) ==
    CHOOSE n \in 0..(Len(wps) - 2) :
        /\ C11_Within(wps, n, t)
        /\ \A m \in 0..(n - 1) : ~C11_Within(wps, m, t)

\* C11: check_temporal_conflict emits at most one record for each sample
\* instant, computed from the first mission segment and the first segment
\* of the other trajectory whose intervals contain the instant, also when
\* zero-duration segments make several segments contain it; so a call
\* returns at most 10 records.
C11_OneRecordPerSample ==
    TemporalDone =>
        /\ Len(tret) <= NumSamples
        /\ \A n \in DOMAIN tret :
             LET t     == tret[n].time
                 mw    == dargs.mission.waypoints
                 sw    == dargs.schedule.waypoints
                 i     == C11_First(mw, t)
                 j     == C11_First(sw, t)
                 pos_m == interpolate_position(mw[i + 1], mw[i + 2], t)
                 pos_s == interpolate_position(sw[j + 1], sw[j + 2], t)
             IN  /\ t \in C11_Instants
                 /\ \A m \in DOMAIN tret : m # n => tret[m].time # t
                 /\ tret[n].location = NormVec(pos_m)
                 /\ tret[n].distance
                      = Norm(NormSq(<<RSub(pos_m[1], pos_s[1]), RSub(pos_m[2], pos_s[2]),
                                      RSub(pos_m[3], pos_s[3])>>))

\* C12: the segment-level check never misses what sampling finds: when
\* check_temporal_conflict returns a record, check_spatial_conflict on the
\* same arguments returns one too, also when the other drone hovers or the
\* segments are parallel.
C12_SpatialCoversTemporal ==
    (TemporalDone /\ tret # <<>>) =>
        check_spatial_conflict(dargs.mission, dargs.schedule, dargs.time_window,
                               dargs.safety_buffer) # <<>>

=============================================================================
